---- MODULE Spec2Model ----
(***************************************************************************)
(* Role-based access control in front of a shared resource list            *)
(* (src/FlaskApp/authentication-role-based/app.py).                        *)
(*                                                                         *)
(* State: the module-level list RESOURCES, the wall clock the JWT library  *)
(* reads, the access token the client holds (the server keeps no session:  *)
(* a token lives only in the login response and in later requests), and    *)
(* the exchange in flight: a request with the response on its way back.    *)
(* The client sends its next request once it has received the response,    *)
(* and a request is handled at one instant of the clock.                   *)
(* workers are the server threads of the second specification, ConcSpec,   *)
(* in which two requests are handled at the same time, statement by        *)
(* statement; under Spec they stay idle.                                   *)
(*                                                                         *)
(* One action per route; each action is the whole request: the             *)
(* @jwt_required() decorator, the handler body and the response.           *)
(* Request bodies read by a handler (login, POST, PUT) are JSON objects.   *)
(* Time is counted in clock ticks, TicksPerHour of them to the hour.       *)
(***************************************************************************)
EXTENDS Integers, Sequences, FiniteSets, TLC

VARIABLES RESOURCES, now, held, inflight, workers

vars == <<RESOURCES, now, held, inflight, workers>>

(* ---------------------------- bounds ----------------------------------- *)
MaxResources == 2
TicksPerHour == 2

(* ------------------------- configuration ------------------------------- *)
JWT_SECRET_KEY == "your_jwt_secret_key"
JWT_ACCESS_TOKEN_EXPIRES == 1 * TicksPerHour

(* The clock runs until one tick past the expiry of a token issued at 0. *)
MaxTime == JWT_ACCESS_TOKEN_EXPIRES + 1

ROLES_PERMISSIONS ==
    [admin     |-> {"delete", "edit", "view"},
     developer |-> {"edit", "view"},
     tester    |-> {"view"}]

USERS ==
    [admin_user  |-> [password |-> "admin123",  role |-> "admin"],
     dev_user    |-> [password |-> "dev123",    role |-> "developer"],
     tester_user |-> [password |-> "tester123", role |-> "tester"]]

InitialResources ==
    << [id |-> 1, name |-> "Resource 1", description |-> "A sample resource"] >>

(* Python's None, for a key that a JSON object does not carry. *)
None == "None"

(* dict.get(key): the value, or None when the key is absent. *)
Get(d, k) == IF k \in DOMAIN d THEN d[k] ELSE None

(* dict.update(data): keys of data overwrite or extend the dict. *)
DictUpdate(d, data) ==
    [k \in DOMAIN d \cup DOMAIN data |-> IF k \in DOMAIN data THEN data[k] ELSE d[k]]

(* new_resource['id'] = v on a dict. *)
SetItem(d, k, v) ==
    [j \in DOMAIN d \cup {k} |-> IF j = k THEN v ELSE d[j]]

(* ------------------------- permission matrix --------------------------- *)
has_permission_tester_edits(required_permission, user_role) ==
    \/ user_role \in DOMAIN ROLES_PERMISSIONS
         /\ required_permission \in ROLES_PERMISSIONS[user_role]
    \/ user_role = "tester" /\ required_permission = "edit"

has_permission(required_permission, user_role) ==
    required_permission \in
        (IF user_role \in DOMAIN ROLES_PERMISSIONS
            THEN ROLES_PERMISSIONS[user_role]
            ELSE {})

(* ------------------------------ tokens --------------------------------- *)
(* HS256 signature: a keyed digest of the claims. *)
Sign(key, claims) == [key |-> key, digest |-> claims]

NoClaims == [sub |-> "", role |-> "", iat |-> 0, exp |-> 0]

(* The Authorization header of a request. *)
Missing   == [kind |-> "missing",   claims |-> NoClaims, sig |-> Sign("", NoClaims)]
Malformed == [kind |-> "malformed", claims |-> NoClaims, sig |-> Sign("", NoClaims)]
Bearer(claims, sig) == [kind |-> "bearer", claims |-> claims, sig |-> sig]

create_access_token_role_tester(identity, role, t) ==
    LET claims == [sub |-> identity, role |-> "tester", iat |-> t,
                   exp |-> t + JWT_ACCESS_TOKEN_EXPIRES]
    IN  Bearer(claims, Sign(JWT_SECRET_KEY, claims))

create_access_token(identity, role, t) ==
    LET claims == [sub |-> identity, role |-> role, iat |-> t,
                   exp |-> t + JWT_ACCESS_TOKEN_EXPIRES]
    IN  Bearer(claims, Sign(JWT_SECRET_KEY, claims))

(* --------------------- @jwt_required(): verification ------------------- *)
(* Outcome of verifying the Authorization header at time t.  The library   *)
(* checks, in this order: header present, token decodable, signature,      *)
(* expiry (exp <= now is expired).  Its default handlers answer a missing  *)
(* header and an expired token with 401, an undecodable or wrongly signed  *)
(* token with 422.                                                         *)
Rejected(status, msg) == [ok |-> FALSE, status |-> status, msg |-> msg, claims |-> NoClaims]
Accepted(claims)      == [ok |-> TRUE,  status |-> 200,    msg |-> "",  claims |-> claims]

verify_jwt_in_request_no_signature_check(cred, t) ==
    IF cred.kind = "missing" THEN Rejected(401, "Missing Authorization Header")
    ELSE IF cred.kind = "malformed" THEN Rejected(422, "Not enough segments")
    ELSE IF cred.claims.exp <= t THEN Rejected(401, "Token has expired")
    ELSE Accepted(cred.claims)

verify_jwt_in_request_expiry_inclusive(cred, t) ==
    IF cred.kind = "missing" THEN Rejected(401, "Missing Authorization Header")
    ELSE IF cred.kind = "malformed" THEN Rejected(422, "Not enough segments")
    ELSE IF cred.sig # Sign(JWT_SECRET_KEY, cred.claims)
        THEN Rejected(422, "Signature verification failed")
    ELSE IF cred.claims.exp < t THEN Rejected(401, "Token has expired")
    ELSE Accepted(cred.claims)

verify_jwt_in_request(cred, t) ==
    IF cred.kind = "missing" THEN Rejected(401, "Missing Authorization Header")
    ELSE IF cred.kind = "malformed" THEN Rejected(422, "Not enough segments")
    ELSE IF cred.sig # Sign(JWT_SECRET_KEY, cred.claims)
        THEN Rejected(422, "Signature verification failed")
    ELSE IF cred.claims.exp <= t THEN Rejected(401, "Token has expired")
    ELSE Accepted(cred.claims)

(* ------------------------------ handlers ------------------------------- *)
(* A handler maps the store and the request to the store afterwards and    *)
(* the response.  path lists the stages the request went through:          *)
(* "verify" (the decorator), "permission" (has_permission was called),     *)
(* "store" (RESOURCES was read or written).                                *)
Reply(store, status, msg, token, result, path) ==
    [store |-> store, status |-> status, msg |-> msg, token |-> token,
     result |-> result, path |-> path]

AuthFailed(store, v) == Reply(store, v.status, v.msg, Missing, <<>>, <<"verify">>)

PermissionDenied(store) ==
    Reply(store, 403, "Permission denied", Missing, <<>>, <<"verify", "permission">>)

Checked == <<"verify", "permission", "store">>

login_names_unknown_user(store, json, t) ==
    LET username == Get(json, "username")
        password == Get(json, "password")
    IN  IF username \in DOMAIN USERS /\ USERS[username].password = password
        THEN Reply(store, 200, "",
                   create_access_token(username, USERS[username].role, t), <<>>, <<>>)
        ELSE IF username \in DOMAIN USERS
            THEN Reply(store, 401, "Invalid credentials", Missing, <<>>, <<>>)
        ELSE Reply(store, 401, "Unknown user", Missing, <<>>, <<>>)

login(store, json, t) ==
    LET username == Get(json, "username")
        password == Get(json, "password")
    IN  IF username \in DOMAIN USERS /\ USERS[username].password = password
        THEN Reply(store, 200, "",
                   create_access_token(username, USERS[username].role, t), <<>>, <<>>)
        ELSE Reply(store, 401, "Invalid credentials", Missing, <<>>, <<>>)

view_resources_requires_edit(store, cred, t) ==
    LET v == verify_jwt_in_request(cred, t)
    IN  IF ~v.ok THEN AuthFailed(store, v)
        ELSE IF has_permission("edit", v.claims.role)
            THEN Reply(store, 200, "", Missing, store, Checked)
        ELSE PermissionDenied(store)

view_resources(store, cred, t) ==
    LET v == verify_jwt_in_request(cred, t)
    IN  IF ~v.ok THEN AuthFailed(store, v)
        ELSE IF has_permission("view", v.claims.role)
            THEN Reply(store, 200, "", Missing, store, Checked)
        ELSE PermissionDenied(store)

(* Index of the first resource whose id is resource_id, 0 when none. *)
FirstWithId(store, resource_id) ==
    IF \E i \in 1..Len(store) : store[i].id = resource_id
    THEN CHOOSE i \in 1..Len(store) :
            /\ store[i].id = resource_id
            /\ \A j \in 1..(i - 1) : store[j].id # resource_id
    ELSE 0

edit_resource_updates_every_match(store, cred, t, resource_id, data) ==
    LET v == verify_jwt_in_request(cred, t)
    IN  IF ~v.ok THEN AuthFailed(store, v)
        ELSE IF has_permission("edit", v.claims.role)
            THEN LET i == FirstWithId(store, resource_id)
                 IN  IF i # 0
                     THEN Reply([j \in 1..Len(store) |->
                                    IF store[j].id = resource_id
                                    THEN DictUpdate(store[j], data)
                                    ELSE store[j]],
                                200, "", Missing, <<DictUpdate(store[i], data)>>, Checked)
                     ELSE Reply(store, 404, "Resource not found", Missing, <<>>, Checked)
        ELSE PermissionDenied(store)

edit_resource_lookup_first(store, cred, t, resource_id, data) ==
    LET v == verify_jwt_in_request(cred, t)
        i == FirstWithId(store, resource_id)
    IN  IF ~v.ok THEN AuthFailed(store, v)
        ELSE IF i = 0
            THEN Reply(store, 404, "Resource not found", Missing, <<>>, Checked)
        ELSE IF has_permission("edit", v.claims.role)
            THEN LET resource == DictUpdate(store[i], data)
                 IN  Reply([store EXCEPT ![i] = resource], 200, "", Missing,
                           <<resource>>, Checked)
        ELSE PermissionDenied(store)

edit_resource(store, cred, t, resource_id, data) ==
    LET v == verify_jwt_in_request(cred, t)
    IN  IF ~v.ok THEN AuthFailed(store, v)
        ELSE IF has_permission("edit", v.claims.role)
            THEN LET i == FirstWithId(store, resource_id)
                 IN  IF i # 0
                     THEN LET resource == DictUpdate(store[i], data)
                          IN  Reply([store EXCEPT ![i] = resource], 200, "", Missing,
                                    <<resource>>, Checked)
                     ELSE Reply(store, 404, "Resource not found", Missing, <<>>, Checked)
        ELSE PermissionDenied(store)

(* The sequence without its first element whose id is resource_id. *)
RemoveFirst(store, resource_id) ==
    LET i == FirstWithId(store, resource_id)
    IN  IF i = 0 THEN store
        ELSE SubSeq(store, 1, i - 1) \o SubSeq(store, i + 1, Len(store))

delete_resource_first_only(store, cred, t, resource_id) ==
    LET v == verify_jwt_in_request(cred, t)
    IN  IF ~v.ok THEN AuthFailed(store, v)
        ELSE IF has_permission("delete", v.claims.role)
            THEN Reply(RemoveFirst(store, resource_id),
                       200, "Resource deleted", Missing, <<>>, Checked)
        ELSE PermissionDenied(store)

delete_resource(store, cred, t, resource_id) ==
    LET v == verify_jwt_in_request(cred, t)
    IN  IF ~v.ok THEN AuthFailed(store, v)
        ELSE IF has_permission("delete", v.claims.role)
            THEN Reply(SelectSeq(store, LAMBDA r : r.id # resource_id),
                       200, "Resource deleted", Missing, <<>>, Checked)
        ELSE PermissionDenied(store)

add_resource_keeps_payload_id(store, cred, t, data) ==
    LET v == verify_jwt_in_request(cred, t)
    IN  IF ~v.ok THEN AuthFailed(store, v)
        ELSE IF has_permission("edit", v.claims.role)
            THEN LET new_resource == IF "id" \in DOMAIN data
                                     THEN data
                                     ELSE SetItem(data, "id", Len(store) + 1)
                 IN  Reply(Append(store, new_resource), 201, "", Missing,
                           <<new_resource>>, Checked)
        ELSE PermissionDenied(store)

add_resource(store, cred, t, data) ==
    LET v == verify_jwt_in_request(cred, t)
    IN  IF ~v.ok THEN AuthFailed(store, v)
        ELSE IF has_permission("edit", v.claims.role)
            THEN LET new_resource == SetItem(data, "id", Len(store) + 1)
                 IN  Reply(Append(store, new_resource), 201, "", Missing,
                           <<new_resource>>, Checked)
        ELSE PermissionDenied(store)

(* ------------------------------ requests ------------------------------- *)
(* A JSON object without keys. *)
EmptyDict == [k \in {} |-> None]

Ids == 1..MaxResources

(* Bodies of POST /resources and PUT /resources/<id>. *)
ResourcePayloads ==
    {EmptyDict, [name |-> "X"]}
        \cup {[id |-> i] : i \in Ids}
        \cup {[id |-> i, name |-> "X"] : i \in Ids}

Usernames == (DOMAIN USERS) \cup {"wrong_user"}
Passwords == {USERS[u].password : u \in DOMAIN USERS} \cup {"wrong_pass"}

(* Bodies of POST /login: either key may be absent. *)
LoginPayloads ==
    {EmptyDict}
        \cup {[username |-> u] : u \in Usernames}
        \cup {[password |-> p] : p \in Passwords}
        \cup {[username |-> u, password |-> p] : u \in Usernames, p \in Passwords}

(* What a client can send as its Authorization header: nothing, a string   *)
(* that is no JWT, the token it holds, that token with the role or the     *)
(* expiry rewritten under the old signature, or a token signed with a key  *)
(* of its own.                                                             *)
RoleRewritten(tok) == Bearer([tok.claims EXCEPT !.role = "admin"], tok.sig)
ExpiryRewritten(tok) ==
    Bearer([tok.claims EXCEPT !.exp = @ + JWT_ACCESS_TOKEN_EXPIRES], tok.sig)
SelfSigned ==
    LET claims == [sub |-> "admin_user", role |-> "admin", iat |-> 0, exp |-> MaxTime + 1]
    IN  Bearer(claims, Sign("attacker_key", claims))

Presentable ==
    {Missing, Malformed, SelfSigned}
        \cup (IF held = Missing
              THEN {}
              ELSE {held, RoleRewritten(held), ExpiryRewritten(held)})

NoRequest ==
    [op |-> "none", cred |-> Missing, rid |-> 0, data |-> EmptyDict,
     status |-> 0, msg |-> "", token |-> Missing, result |-> <<>>, path |-> <<>>]

(* The request and the response to it. *)
Exchange(op, cred, rid, data, out) ==
    [op |-> op, cred |-> cred, rid |-> rid, data |-> data,
     status |-> out.status, msg |-> out.msg, token |-> out.token,
     result |-> out.result, path |-> out.path]

(* The server threads that app.run starts, one per request in progress. *)
Workers == {"t1", "t2"}

(* A thread: the request it handles, the statement it is at (pc), its      *)
(* local variable (new_resource, or the list the comprehension built) and  *)
(* its response.                                                           *)
ReadyWorker ==
    [pc |-> "ready", op |-> "none", cred |-> Missing, rid |-> 0, data |-> EmptyDict,
     local |-> <<>>, status |-> 0, msg |-> "", result |-> <<>>]

(* ------------------------------- actions ------------------------------- *)
Init ==
    /\ RESOURCES = InitialResources
    /\ now = 0
    /\ held = Missing
    /\ inflight = NoRequest
    /\ workers = [w \in Workers |-> ReadyWorker]

Idle == inflight = NoRequest

Tick ==
    /\ Idle
    /\ now < MaxTime
    /\ now' = now + 1
    /\ UNCHANGED <<RESOURCES, held, inflight, workers>>

Login ==
    /\ Idle
    /\ \E json \in LoginPayloads :
        LET out == login(RESOURCES, json, now)
        IN  /\ RESOURCES' = out.store
            /\ inflight' = Exchange("login", Missing, 0, json, out)
            /\ UNCHANGED <<now, held, workers>>

ViewResources ==
    /\ Idle
    /\ \E cred \in Presentable :
        LET out == view_resources(RESOURCES, cred, now)
        IN  /\ RESOURCES' = out.store
            /\ inflight' = Exchange("list", cred, 0, EmptyDict, out)
            /\ UNCHANGED <<now, held, workers>>

EditResource ==
    /\ Idle
    /\ \E cred \in Presentable, resource_id \in Ids, data \in ResourcePayloads :
        LET out == edit_resource(RESOURCES, cred, now, resource_id, data)
        IN  /\ RESOURCES' = out.store
            /\ inflight' = Exchange("update", cred, resource_id, data, out)
            /\ UNCHANGED <<now, held, workers>>

DeleteResource ==
    /\ Idle
    /\ \E cred \in Presentable, resource_id \in Ids :
        LET out == delete_resource(RESOURCES, cred, now, resource_id)
        IN  /\ RESOURCES' = out.store
            /\ inflight' = Exchange("delete", cred, resource_id, EmptyDict, out)
            /\ UNCHANGED <<now, held, workers>>

AddResource ==
    /\ Idle
    /\ \E cred \in Presentable, data \in ResourcePayloads :
        LET out == add_resource(RESOURCES, cred, now, data)
        IN  /\ Len(out.store) <= MaxResources
            /\ RESOURCES' = out.store
            /\ inflight' = Exchange("create", cred, 0, data, out)
            /\ UNCHANGED <<now, held, workers>>

(* The client receives the response; it keeps the token of a login. *)
Receive ==
    /\ ~Idle
    /\ held' = IF inflight.op = "login" /\ inflight.status = 200
               THEN inflight.token
               ELSE held
    /\ inflight' = NoRequest
    /\ UNCHANGED <<RESOURCES, now, workers>>

Next ==
    \/ Tick
    \/ Login
    \/ ViewResources
    \/ EditResource
    \/ DeleteResource
    \/ AddResource
    \/ Receive

Spec == Init /\ [][Next]_vars

(* ------------------- two requests handled concurrently ----------------- *)
(* The handlers take no lock, so a thread can be preempted between two     *)
(* statements.  A step is one statement that reads or writes RESOURCES:    *)
(* line 119 (len), line 120 (append), the comprehension of line 104, the   *)
(* assignment of line 104.  The loop of lines 86-89 is taken as one step;  *)
(* splitting it would only add interleavings.                              *)

(* Tokens as login issues them at the instant of the requests. *)
ConcCreds == {create_access_token(u, USERS[u].role, now) : u \in DOMAIN USERS}

ConcRequests ==
    {[op |-> "create", rid |-> 0, data |-> d] : d \in ResourcePayloads}
        \cup {[op |-> "update", rid |-> i, data |-> d] : i \in Ids, d \in ResourcePayloads}
        \cup {[op |-> "delete", rid |-> i, data |-> EmptyDict] : i \in Ids}

ConcRequired == [create |-> "edit", update |-> "edit", delete |-> "delete"]

FirstStatement == [create |-> "line119", update |-> "line86", delete |-> "line104_read"]

Respond(w, status, msg, result) ==
    [workers EXCEPT ![w].pc = "done", ![w].status = status,
                    ![w].msg = msg, ![w].result = result]

(* @jwt_required(), get_jwt() and has_permission: no shared state read. *)
ConcBegin ==
    \E w \in Workers, r \in ConcRequests, cred \in ConcCreds :
        LET v == verify_jwt_in_request(cred, now)
            started == [workers EXCEPT ![w].op = r.op, ![w].cred = cred,
                                       ![w].rid = r.rid, ![w].data = r.data]
        IN  /\ workers[w].pc = "ready"
            /\ workers' =
                 IF ~v.ok
                 THEN [started EXCEPT ![w].pc = "done", ![w].status = v.status,
                                      ![w].msg = v.msg]
                 ELSE IF has_permission(ConcRequired[r.op], v.claims.role)
                     THEN [started EXCEPT ![w].pc = FirstStatement[r.op]]
                 ELSE [started EXCEPT ![w].pc = "done", ![w].status = 403,
                                      ![w].msg = "Permission denied"]
            /\ UNCHANGED <<RESOURCES, now, held, inflight>>

(* add_resource, line 119: new_resource['id'] = len(RESOURCES) + 1 *)
ConcAssignId ==
    \E w \in Workers :
        /\ workers[w].pc = "line119"
        /\ workers' = [workers EXCEPT
                ![w].pc = "line120",
                ![w].local = <<SetItem(workers[w].data, "id", Len(RESOURCES) + 1)>>]
        /\ UNCHANGED <<RESOURCES, now, held, inflight>>

(* add_resource, lines 120-121: RESOURCES.append(new_resource); return *)
ConcAppend ==
    \E w \in Workers :
        /\ workers[w].pc = "line120"
        /\ RESOURCES' = Append(RESOURCES, workers[w].local[1])
        /\ workers' = Respond(w, 201, "", workers[w].local)
        /\ UNCHANGED <<now, held, inflight>>

(* delete_resource, line 104, right-hand side: the list comprehension *)
ConcFilter ==
    \E w \in Workers :
        /\ workers[w].pc = "line104_read"
        /\ workers' = [workers EXCEPT
                ![w].pc = "line104_write",
                ![w].local = SelectSeq(RESOURCES, LAMBDA r : r.id # workers[w].rid)]
        /\ UNCHANGED <<RESOURCES, now, held, inflight>>

(* delete_resource, lines 104-105: RESOURCES = <the new list>; return *)
ConcRebind ==
    \E w \in Workers :
        /\ workers[w].pc = "line104_write"
        /\ RESOURCES' = workers[w].local
        /\ workers' = Respond(w, 200, "Resource deleted", <<>>)
        /\ UNCHANGED <<now, held, inflight>>

(* edit_resource, lines 86-90: find, update in place, return *)
ConcEdit ==
    \E w \in Workers :
        LET i == FirstWithId(RESOURCES, workers[w].rid)
        IN  /\ workers[w].pc = "line86"
            /\ IF i # 0
               THEN LET resource == DictUpdate(RESOURCES[i], workers[w].data)
                    IN  /\ RESOURCES' = [RESOURCES EXCEPT ![i] = resource]
                        /\ workers' = Respond(w, 200, "", <<resource>>)
               ELSE /\ RESOURCES' = RESOURCES
                    /\ workers' = Respond(w, 404, "Resource not found", <<>>)
            /\ UNCHANGED <<now, held, inflight>>

ConcNext ==
    \/ ConcBegin
    \/ ConcAssignId
    \/ ConcAppend
    \/ ConcFilter
    \/ ConcRebind
    \/ ConcEdit

ConcSpec == Init /\ [][ConcNext]_vars

(* ======================= properties of the program ===================== *)
(* Notions the properties are stated in, spelled out on their own.         *)

Guarded == {"list", "create", "update", "delete"}

(* The request of the exchange in flight is being answered at this step. *)
Handled(op) == Idle /\ inflight'.op = op

(* The token was signed by this server and has not expired at time t. *)
ValidAt(cred, t) ==
    /\ cred.kind = "bearer"
    /\ cred.sig = Sign(JWT_SECRET_KEY, cred.claims)
    /\ t < cred.claims.exp

(* The permission table of the specification. *)
Allowed(action, role) ==
    \/ role = "admin"     /\ action \in {"delete", "edit", "view"}
    \/ role = "developer" /\ action \in {"edit", "view"}
    \/ role = "tester"    /\ action = "view"

RequiredAction ==
    [list |-> "view", create |-> "edit", update |-> "edit", delete |-> "delete"]

(* The request in flight (x) came with a verified token whose role may do  *)
(* what the operation requires.                                            *)
Authorized(x, t) ==
    /\ x.op \in Guarded
    /\ ValidAt(x.cred, t)
    /\ Allowed(RequiredAction[x.op], x.cred.claims.role)

HasId(store, i) == \E j \in 1..Len(store) : store[j].id = i

(* C1: the store changes only while a create, update or delete request is  *)
(* handled whose bearer token verified and whose role is allowed the       *)
(* required action; a request answered with an authentication failure      *)
(* (401, 422) or with 403 leaves the store exactly as it was.              *)
C1_StoreChangesOnlyWhenAuthorized ==
    [][ /\ (RESOURCES' # RESOURCES =>
                /\ Idle
                /\ inflight'.op \in {"create", "update", "delete"}
                /\ Authorized(inflight', now))
        /\ (Idle /\ inflight'.status \in {401, 403, 422} =>
                RESOURCES' = RESOURCES) ]_vars

(* C1 witness: a tester's update of an existing resource was refused. *)
C1_Witness ==
    /\ inflight.op = "update"
    /\ inflight.status = 403
    /\ ValidAt(inflight.cred, now)
    /\ inflight.cred.claims.role = "tester"
    /\ HasId(RESOURCES, inflight.rid)
    /\ inflight.data = [name |-> "X"]

(* C2: has_permission(action, role) is true exactly when the table         *)
(* admin={delete,edit,view}, developer={edit,view}, tester={view} holds    *)
(* the action, and false for a role outside the table; so a guarded        *)
(* request with a verified token is refused with 403 exactly when its role *)
(* is not among those the operation is permitted to: list to all three     *)
(* roles, create and update to admin and developer, delete to admin.       *)
OtherRoles == {"guest", "Admin", "", None}

PermittedRoles ==
    [list   |-> {"admin", "developer", "tester"},
     create |-> {"admin", "developer"},
     update |-> {"admin", "developer"},
     delete |-> {"admin"}]

C2_PermissionMatrix ==
    /\ \A role \in {"admin", "developer", "tester"}, action \in {"view", "edit", "delete"} :
            has_permission(action, role) <=> Allowed(action, role)
    /\ \A role \in OtherRoles, action \in {"view", "edit", "delete"} :
            ~has_permission(action, role)
    /\ (inflight.op \in Guarded /\ ValidAt(inflight.cred, now) =>
            (inflight.status # 403 <=>
                inflight.cred.claims.role \in PermittedRoles[inflight.op]))

(* C2 witness: a developer's delete was refused. *)
C2_Witness ==
    /\ inflight.op = "delete"
    /\ ValidAt(inflight.cred, now)
    /\ inflight.cred.claims.role = "developer"
    /\ inflight.status = 403

(* C3: in a guarded request the token is verified before the permission    *)
(* check and the permission check before the store operation; a request    *)
(* whose token is missing, malformed, wrongly signed or expired is         *)
(* answered with 401 without has_permission being called or the store      *)
(* being touched, and 403 is only answered to a request whose token        *)
(* verified.                                                               *)
C3_AuthFailureIs401BeforePermission ==
    /\ (inflight.op \in Guarded /\ ~ValidAt(inflight.cred, now) =>
            /\ inflight.status = 401
            /\ inflight.path = <<"verify">>)
    /\ (inflight.op \in Guarded =>
            inflight.path \in {<<"verify">>, <<"verify", "permission">>,
                               <<"verify", "permission", "store">>})
    /\ (inflight.status = 403 => ValidAt(inflight.cred, now))

(* Username and password of a login body name a registered principal. *)
CorrectLogin(json) ==
    /\ "username" \in DOMAIN json
    /\ "password" \in DOMAIN json
    /\ \/ json.username = "admin_user"  /\ json.password = "admin123"
       \/ json.username = "dev_user"    /\ json.password = "dev123"
       \/ json.username = "tester_user" /\ json.password = "tester123"

RegisteredRole ==
    [admin_user |-> "admin", dev_user |-> "developer", tester_user |-> "tester"]

(* C4: a login with a registered identifier and its correct secret is      *)
(* answered 200 with a token which, verified at the instant of issuance,   *)
(* is accepted and yields that identifier as subject and the principal's   *)
(* registered role.                                                        *)
C4_LoginRoundTrip ==
    inflight.op = "login" /\ CorrectLogin(inflight.data) =>
        /\ inflight.status = 200
        /\ LET v == verify_jwt_in_request(inflight.token, now)
           IN  /\ v.ok
               /\ v.claims.sub = inflight.data.username
               /\ v.claims.role = RegisteredRole[inflight.data.username]

(* C4 witness: the developer logged in and was issued a token. *)
C4_Witness ==
    /\ inflight.op = "login"
    /\ inflight.data = [username |-> "dev_user", password |-> "dev123"]
    /\ inflight.token.kind = "bearer"

(* C5: a login whose identifier is not registered or whose secret is not   *)
(* the registered one (either may be absent) is answered 401 with          *)
(* {"msg": "Invalid credentials"} and no token: one and the same response  *)
(* whichever part was wrong.                                               *)
C5_InvalidCredentials ==
    inflight.op = "login" /\ ~CorrectLogin(inflight.data) =>
        /\ inflight.status = 401
        /\ inflight.msg = "Invalid credentials"
        /\ inflight.token = Missing
        /\ inflight.result = <<>>

(* C5 witnesses: an unknown user, a known user with another user's         *)
(* secret, and a body without a password have all been refused.            *)
C5_Witness ==
    /\ inflight.op = "login"
    /\ inflight.status = 401
    /\ inflight.data \in {[username |-> "wrong_user", password |-> "admin123"],
                          [username |-> "admin_user", password |-> "dev123"],
                          [username |-> "admin_user"]}

(* The token is one this server issued: its signature is the server's. *)
Issued(cred) ==
    /\ cred.kind = "bearer"
    /\ cred.sig = Sign(JWT_SECRET_KEY, cred.claims)

(* C6: a token issued at time t expires at t + 1 hour; presented on a       *)
(* guarded request at a time strictly before its expiry it is accepted     *)
(* (the request goes on to the permission check), and at a time equal to   *)
(* or after its expiry the request is answered with the authentication     *)
(* failure 401 and goes no further.                                        *)
C6_Expiry ==
    /\ (inflight.op = "login" /\ inflight.status = 200 =>
            /\ inflight.token.claims.iat = now
            /\ inflight.token.claims.exp = now + TicksPerHour)
    /\ (inflight.op \in Guarded /\ Issued(inflight.cred) =>
            IF now < inflight.cred.claims.exp
            THEN /\ Len(inflight.path) >= 2
                 /\ inflight.status \notin {401, 422}
            ELSE /\ inflight.path = <<"verify">>
                 /\ inflight.status = 401)

(* C6 witness: a token was refused at exactly its expiry time. *)
C6_Witness ==
    /\ inflight.op \in Guarded
    /\ Issued(inflight.cred)
    /\ inflight.cred = held
    /\ now = inflight.cred.claims.exp
    /\ inflight.status = 401

(* C6 witness of acceptance: a token was accepted one tick before expiry. *)
C6_WitnessAccepted ==
    /\ inflight.op \in Guarded
    /\ Issued(inflight.cred)
    /\ now = inflight.cred.claims.exp - 1
    /\ inflight.status \in {200, 201}

(* C7: no two resources in the store have the same id. *)
C7_UniqueIds ==
    \A i, j \in 1..Len(RESOURCES) :
        i # j => RESOURCES[i].id # RESOURCES[j].id

(* C8: a create request by a role holding edit is answered 201 with the    *)
(* stored record; its id is the number of resources before the call plus   *)
(* one whatever id the payload carries, its other fields are the           *)
(* payload's; the record is the last element of the store afterwards, the  *)
(* earlier resources and their order are unchanged, and a list request     *)
(* made next returns it.                                                   *)
C8_Create ==
    [][ Handled("create") /\ Authorized(inflight', now) =>
            /\ inflight'.status = 201
            /\ Len(inflight'.result) = 1
            /\ LET rec  == inflight'.result[1]
                   data == inflight'.data
                   n    == Len(RESOURCES)
                   listing == view_resources(RESOURCES', inflight'.cred, now)
               IN  /\ rec.id = n + 1
                   /\ DOMAIN rec = DOMAIN data \cup {"id"}
                   /\ \A k \in DOMAIN data \ {"id"} : rec[k] = data[k]
                   /\ Len(RESOURCES') = n + 1
                   /\ RESOURCES'[n + 1] = rec
                   /\ \A m \in 1..n : RESOURCES'[m] = RESOURCES[m]
                   /\ listing.status = 200
                   /\ listing.result[Len(listing.result)] = rec ]_vars

(* C8 witness: a create whose payload carried another id than the one      *)
(* assigned was answered 201.                                              *)
C8_Witness ==
    /\ inflight.op = "create"
    /\ inflight.status = 201
    /\ "id" \in DOMAIN inflight.data
    /\ "name" \in DOMAIN inflight.data
    /\ inflight.data.id # inflight.result[1].id
    /\ Len(RESOURCES) = 2

(* C9: an update by a role holding edit for an id no resource has is       *)
(* answered 404 "Resource not found", not 403, and leaves the store        *)
(* unchanged; 404 is never the answer to a request whose token failed      *)
(* verification or whose role lacks edit.                                  *)
C9_UpdateNotFound ==
    [][ /\ (Handled("update") /\ Authorized(inflight', now)
                /\ ~HasId(RESOURCES, inflight'.rid) =>
                /\ inflight'.status = 404
                /\ inflight'.msg = "Resource not found"
                /\ RESOURCES' = RESOURCES)
        /\ (Idle /\ inflight'.status = 404 =>
                /\ ValidAt(inflight'.cred, now)
                /\ Allowed("edit", inflight'.cred.claims.role)) ]_vars

(* C9 witness: a developer's update of an id that no resource has, in a    *)
(* store that is not empty, was answered 404.                              *)
C9_Witness ==
    /\ inflight.op = "update"
    /\ inflight.status = 404
    /\ inflight.cred.claims.role = "developer"
    /\ ~HasId(RESOURCES, inflight.rid)
    /\ Len(RESOURCES) >= 1

(* The elements of a sequence whose id is not i, in their order. *)
RECURSIVE OthersThan(_, _)
OthersThan(store, i) ==
    IF store = <<>> THEN <<>>
    ELSE (IF Head(store).id = i THEN <<>> ELSE <<Head(store)>>)
            \o OthersThan(Tail(store), i)

(* C10: a delete by the admin role for id i is answered 200 "Resource      *)
(* deleted" whether or not a resource has id i; afterwards no resource has *)
(* id i, and the resources with another id are all there, unchanged and in *)
(* the same order (so nothing changes when no resource had id i).          *)
C10_Delete ==
    [][ Handled("delete") /\ Authorized(inflight', now) =>
            /\ inflight'.status = 200
            /\ inflight'.msg = "Resource deleted"
            /\ ~HasId(RESOURCES', inflight'.rid)
            /\ RESOURCES' = OthersThan(RESOURCES, inflight'.rid)
            /\ (~HasId(RESOURCES, inflight'.rid) => RESOURCES' = RESOURCES) ]_vars

(* C10 witness: a delete removed a resource and left another one. *)
C10_Witness ==
    /\ inflight.op = "delete"
    /\ inflight.status = 200
    /\ inflight.cred.claims.role = "admin"
    /\ Len(RESOURCES) = 1
    /\ RESOURCES[1].id # inflight.rid
    /\ RESOURCES[1].id = 2

(* C10 witness: a delete of an id that no resource had was answered 200. *)
C10_WitnessNoMatch ==
    /\ inflight.op = "delete"
    /\ inflight.status = 200
    /\ Len(RESOURCES) = 2
    /\ ~HasId(RESOURCES, inflight.rid)

(* C11: a list request with a valid token of any of the three roles is     *)
(* answered 200 with exactly the resources of the store, all of them and   *)
(* in store order, and leaves the store unchanged.                         *)
C11_List ==
    [][ Handled("list") /\ ValidAt(inflight'.cred, now)
            /\ inflight'.cred.claims.role \in {"admin", "developer", "tester"} =>
            /\ inflight'.status = 200
            /\ Len(inflight'.result) = Len(RESOURCES)
            /\ \A i \in 1..Len(RESOURCES) : inflight'.result[i] = RESOURCES[i]
            /\ RESOURCES' = RESOURCES ]_vars

(* C11 witness: a tester listed a store of two resources. *)
C11_Witness ==
    /\ inflight.op = "list"
    /\ inflight.status = 200
    /\ inflight.cred.claims.role = "tester"
    /\ Len(inflight.result) = 2

(* i is the position of the first resource of the store with this id. *)
IsFirstWithId(store, i, id) ==
    /\ i \in 1..Len(store)
    /\ store[i].id = id
    /\ \A j \in 1..(i - 1) : store[j].id # id

(* C13: an update by a role holding edit for an id that some resource has  *)
(* is answered 200 with the updated record: in the first resource with     *)
(* that id every field the payload names takes the payload's value and     *)
(* every other field keeps its value; no other resource is modified, and   *)
(* the number and order of the resources are unchanged.                    *)
C13_Update ==
    [][ Handled("update") /\ Authorized(inflight', now)
            /\ HasId(RESOURCES, inflight'.rid) =>
            /\ inflight'.status = 200
            /\ Len(inflight'.result) = 1
            /\ Len(RESOURCES') = Len(RESOURCES)
            /\ \A i \in 1..Len(RESOURCES) :
                    IF IsFirstWithId(RESOURCES, i, inflight'.rid)
                    THEN LET old  == RESOURCES[i]
                             new  == RESOURCES'[i]
                             data == inflight'.data
                         IN  /\ inflight'.result[1] = new
                             /\ DOMAIN new = DOMAIN old \cup DOMAIN data
                             /\ \A k \in DOMAIN data : new[k] = data[k]
                             /\ \A k \in DOMAIN old \ DOMAIN data : new[k] = old[k]
                    ELSE RESOURCES'[i] = RESOURCES[i] ]_vars

(* C13 witness: of two resources with the same id the first was renamed    *)
(* by an update and the second was not.                                    *)
C13_Witness ==
    /\ inflight.op = "update"
    /\ inflight.status = 200
    /\ inflight.data = [name |-> "X"]
    /\ Len(RESOURCES) = 2
    /\ RESOURCES[1].id = inflight.rid
    /\ RESOURCES[2].id = inflight.rid
    /\ RESOURCES[1].name = "X"
    /\ "name" \notin DOMAIN RESOURCES[2]

(* The ids of the store, position by position. *)
IdsOf(store) == [i \in 1..Len(store) |-> store[i].id]

(* C14: an update never changes which ids are in the store, whatever the   *)
(* payload (also one that carries an id), and the record it returns has    *)
(* the id that was requested.                                              *)
C14_UpdateKeepsIds ==
    [][ Handled("update") /\ Authorized(inflight', now) =>
            /\ IdsOf(RESOURCES') = IdsOf(RESOURCES)
            /\ (inflight'.status = 200 =>
                    inflight'.result[1].id = inflight'.rid) ]_vars

(* One request handled alone, from the store it finds. *)
Alone(store, w) ==
    IF workers[w].op = "create"
        THEN add_resource(store, workers[w].cred, now, workers[w].data)
    ELSE IF workers[w].op = "update"
        THEN edit_resource(store, workers[w].cred, now, workers[w].rid, workers[w].data)
    ELSE delete_resource(store, workers[w].cred, now, workers[w].rid)

SameResponse(w, out) ==
    /\ workers[w].status = out.status
    /\ workers[w].msg = out.msg
    /\ workers[w].result = out.result

(* The store and both responses are those of handling a, then b. *)
AsIfSerial(a, b) ==
    LET first  == Alone(InitialResources, a)
        second == Alone(first.store, b)
    IN  /\ SameResponse(a, first)
        /\ SameResponse(b, second)
        /\ RESOURCES = second.store

BothDone == \A w \in Workers : workers[w].pc = "done"

(* C12: create, update and delete requests of concurrent callers are       *)
(* mutually exclusive in effect: once both are answered, the store and     *)
(* both responses are those of handling the two requests one after the     *)
(* other in some order (so no created resource is lost to a concurrent     *)
(* delete of another id and two creates never get the same id).            *)
C12_Serializable ==
    BothDone => \E a, b \in Workers : a # b /\ AsIfSerial(a, b)

====
